---- MODULE Spec2Model ----
(***************************************************************************)
(* Model of the conversation orchestration layer of the RAG server:        *)
(* ConversationService (internal/service/conversation.go) on top of the    *)
(* PostgreSQL conversation store, the Qdrant vector store and the OpenAI   *)
(* embedding provider (internal/storage).                                  *)
(*                                                                         *)
(* Strings are sequences: an id is a sequence of bytes, a text a sequence  *)
(* of tokens.  Timestamps are readings of one logical clock.  Every        *)
(* request runs as a process that performs one collaborator call per step, *)
(* so that Save, Search and Get invocations interleave at the calls.       *)
(***************************************************************************)
EXTENDS Integers, Sequences, FiniteSets, TLC

\* ------------------------------------------------------------------ bounds
Procs == {"p1", "p2"}

MaxClock == 1

MaxScore == 2

MaxHits == 2

HashBits == 4

MaxBatch == 3

\* --------------------------------------------------------------- constants
\* low bits of the 64-bit FNV prime 0x100000001b3 (hash/fnv)
FNVPrimeLow == 435

\* low bits of the 64-bit FNV offset basis 0xcbf29ce484222325 (hash/fnv)
FNVOffsetLow == 8997

DefaultLimit == 10

MaxLimit == 100

\* ------------------------------------------------------------- data values
NoError == "ok"

EmptyString == <<>>

IdA == <<1>>

IdB == <<2, 1>>

IdC == <<3>>

\* an id whose FNV-1a hash is 0
IdZ == <<5>>

\* an id no conversation is stored under
IdG == <<6>>

SaveIds == {IdA, IdC}

UUIDs == {<<4, 4>>}

MessageLists ==
  { << [Role |-> "user", Content |-> <<"x">>] >>,
    << [Role |-> "user", Content |-> <<"x">>],
       [Role |-> "assistant", Content |-> <<"y">>] >> }

\* a pointer is a sequence of length at most one; the nil pointer is empty
NilPtr == <<>>

Ptr(x) == <<x>>

MetadataValues == {NilPtr, Ptr([Source |-> <<"web">>, SessionID |-> EmptyString])}

SaveRequests ==
  [ConversationID : SaveIds, Messages : MessageLists, Metadata : MetadataValues]

\* the requests of the specification with concurrent searches
ConcurrentIds == {IdA, IdC}

ConcurrentRequests ==
  [ConversationID : ConcurrentIds,
   Messages : {<< [Role |-> "user", Content |-> <<"x">>] >>},
   Metadata : {NilPtr}]

ConcurrentLimits == {0, 1}
RankedLimits == {1, 2}

\* the requests of the specification of the result count
LimitRequests ==
  [ConversationID : {IdA},
   Messages : {<< [Role |-> "user", Content |-> <<"x">>] >>},
   Metadata : {NilPtr}]

\* the requests of the specification of repeated saves of one id
ResaveRequests ==
  [ConversationID : {IdA}, Messages : MessageLists, Metadata : {NilPtr}]

\* the requests of the specification of two concurrent saves of one id: the
\* two callers send different messages and different metadata
RaceRequests ==
  [p1 |-> [ConversationID |-> IdA,
           Messages |-> << [Role |-> "user", Content |-> <<"x">>] >>,
           Metadata |-> NilPtr],
   p2 |-> [ConversationID |-> IdA,
           Messages |-> << [Role |-> "user", Content |-> <<"x">>],
                           [Role |-> "assistant", Content |-> <<"y">>] >>,
           Metadata |-> Ptr([Source |-> <<"web">>, SessionID |-> EmptyString])]]

\* the requests of the specification of point ids: IdA and IdB collide
HashIds == {IdA, IdB, IdZ}

HashRequests ==
  [ConversationID : HashIds,
   Messages : {<< [Role |-> "user", Content |-> <<"x">>] >>},
   Metadata : {NilPtr}]

Queries == {<<"q">>}

Limits == {-5, 0, 1, 2, 100, 101, 1000}

Scores == 1..MaxScore

\* ------------------------------------------------------ identifier hashing
RECURSIVE BitXor(_, _)
BitXor(x, y) ==
  IF x = 0 THEN y
  ELSE IF y = 0 THEN x
  ELSE (((x % 2) + (y % 2)) % 2) + (2 * BitXor(x \div 2, y \div 2))

HashMod == 2 ^ HashBits

FNVPrime == FNVPrimeLow % HashMod

FNVOffset == FNVOffsetLow % HashMod

\* FNV-1a: for every byte, xor it into the hash, then multiply by the prime
RECURSIVE Sum64a(_, _)
Sum64a(h, bytes) ==
  IF bytes = <<>> THEN h
  ELSE Sum64a((BitXor(h, Head(bytes)) * FNVPrime) % HashMod, Tail(bytes))

\* mutant: the hash as it comes
hashConversationIDNoRemap(id) == Sum64a(FNVOffset, id)

hashConversationID(id) ==
  LET hash == Sum64a(FNVOffset, id)
  IN IF hash = 0 THEN 1 ELSE hash

\* --------------------------------------------------------- JSON and values
JString(s) == [t |-> "string", v |-> s]

JNumber(n) == [t |-> "number", v |-> <<n>>]

\* json.Marshal of *models.Metadata: both fields are omitempty
MarshalMetadata(m) ==
  (IF m.Source = EmptyString THEN <<>> ELSE << <<"source", m.Source>> >>) \o
  (IF m.SessionID = EmptyString THEN <<>> ELSE << <<"session_id", m.SessionID>> >>)

\* the vector the embedding provider returns for a text
EmbeddingOf(text) == <<"embedding-of">> \o text

\* ------------------------------------------------------------------- state
VARIABLES
  conversations,  \* rows of the PostgreSQL table "conversations"
  points,         \* points of the Qdrant collection written by SaveVector
  clock,          \* the wall clock read by time.Now() and CURRENT_TIMESTAMP
  kind,           \* per request process: the operation it runs
  pc,             \* per request process: the next collaborator call
  req,            \* per request process: the request
  loc,            \* per request process: the local variables of the handler
  ret,            \* per request process: the value returned to the caller
  lastWrite,      \* per id: what the latest successful relational upsert was given
  http,           \* per request process: the HTTP exchange its handler serves
  personal_info,  \* rows of the PostgreSQL table "personal_info"
  issued          \* the ids uuid.New() has handed out to CreatePersonalInfo

vars ==
  <<conversations, points, clock, kind, pc, req, loc, ret, lastWrite, http,
    personal_info, issued>>

stores == <<conversations, points>>

\* ------------------------------------------------- PostgreSQL (relational)
RowsWithID(rows, id) == {r \in rows : r.ID = id}

\* mutant: a plain INSERT into a table without the primary key
PostgresInsertConversation(rows, conv, dbNow) == rows \cup {conv}

\* INSERT ... ON CONFLICT (id) DO UPDATE SET answer, metadata, updated_at;
\* the BEFORE UPDATE trigger overwrites updated_at with CURRENT_TIMESTAMP
PostgresSaveConversation(rows, conv, dbNow) ==
  IF RowsWithID(rows, conv.ID) # {}
    THEN {IF r.ID = conv.ID
            THEN [r EXCEPT !.Answer = conv.Answer,
                           !.Metadata = conv.Metadata,
                           !.UpdatedAt = dbNow]
            ELSE r : r \in rows}
    ELSE rows \cup {conv}

\* SELECT ... WHERE id = $1: the row, or nil for sql.ErrNoRows
PostgresGetConversation(rows, id) ==
  IF RowsWithID(rows, id) = {} THEN NilPtr
  ELSE Ptr(CHOOSE r \in RowsWithID(rows, id) : TRUE)

SeqRange(s) == {s[i] : i \in 1..Len(s)}

\* mutant: the SELECT without its WHERE clause
PostgresGetAllConversations(rows, ids) ==
  IF Len(ids) = 0 THEN {<<>>}
  ELSE LET match == rows
           n == Cardinality(match)
       IN {s \in [1..n -> match] :
             /\ \A i, j \in 1..n : i # j => s[i] # s[j]
             /\ \A i \in 1..n : \A j \in 1..n :
                  i < j => s[i].CreatedAt >= s[j].CreatedAt}

\* SELECT ... WHERE id = ANY($1) ORDER BY created_at DESC: every order of
\* the matching rows the sort key allows (rows of equal created_at in any order)
PostgresGetConversationsByIDs(rows, ids) ==
  IF Len(ids) = 0 THEN {<<>>}
  ELSE LET match == {r \in rows : r.ID \in SeqRange(ids)}
           n == Cardinality(match)
       IN {s \in [1..n -> match] :
             /\ \A i, j \in 1..n : i # j => s[i] # s[j]
             /\ \A i \in 1..n : \A j \in 1..n :
                  i < j => s[i].CreatedAt >= s[j].CreatedAt}

\* ------------------------------------------------------- Qdrant (vectors)
\* mutant: the point is added next to the points of the collection
QdrantUpsertAppend(pts, point) == pts \cup {point}

\* PUT /collections/{c}/points: a point replaces the point of the same id
QdrantUpsert(pts, point) == {q \in pts : q.id # point.id} \cup {point}

\* mutant: the payload carries only the metadata
SaveVectorPayloadNoID(conversationID, metadata) ==
  [created_at |-> metadata.created_at]

SaveVectorPayload(conversationID, metadata) ==
  [conversation_id |-> JString(conversationID),
   created_at |-> metadata.created_at]

\* mutant: the point id is the length of the conversation id
SaveVectorPointByLength(conversationID, vector, metadata) ==
  [id |-> Len(conversationID),
   vector |-> vector,
   payload |-> SaveVectorPayload(conversationID, metadata)]

SaveVectorPoint(conversationID, vector, metadata) ==
  [id |-> hashConversationID(conversationID),
   vector |-> vector,
   payload |-> SaveVectorPayload(conversationID, metadata)]

\* payloads the index may hand back that carry no string conversation_id:
\* the key is missing, the value is the empty string, the value is a number
MalformedPayloads ==
  { [created_at |-> JNumber(0)],
    [conversation_id |-> JString(EmptyString), created_at |-> JNumber(0)],
    [conversation_id |-> JNumber(7), created_at |-> JNumber(0)] }

ReplyItems(pts) ==
  {[ID |-> q.id, Payload |-> q.payload] : q \in pts} \cup
  {[ID |-> 0, Payload |-> m] : m \in MalformedPayloads}

Min(a, b) == IF a < b THEN a ELSE b

\* POST /points/search with limit and with_payload: at most limit items,
\* each point at most once, best score first
QdrantSearchReplies(pts, limit) ==
  LET items == ReplyItems(pts)
      top == Min(Min(limit, MaxHits), Cardinality(items))
  IN UNION { { [i \in 1..k |-> [ID |-> it[i].ID, Score |-> sc[i],
                                Payload |-> it[i].Payload]] :
                 it \in {f \in [1..k -> items] :
                           \A i, j \in 1..k : i # j => f[i] # f[j]},
                 sc \in {g \in [1..k -> Scores] :
                           \A i \in 1..k : \A j \in 1..k :
                             i < j => g[i] >= g[j]} } : k \in 0..top }

\* the conversation_id of a payload when it is a string, "" otherwise
PayloadConversationID(payload) ==
  IF "conversation_id" \in DOMAIN payload
    THEN IF payload.conversation_id.t = "string"
           THEN payload.conversation_id.v
           ELSE EmptyString
    ELSE EmptyString

\* mutant: the conversion loop without the skip
RECURSIVE ConvertResultsKeepAll(_)
ConvertResultsKeepAll(result) ==
  IF result = <<>> THEN <<>>
  ELSE <<[ConversationID |-> PayloadConversationID(Head(result).Payload),
          Score |-> Head(result).Score]>>
         \o ConvertResultsKeepAll(Tail(result))

\* the conversion loop of SearchVectors: items without a conversation id
\* are skipped, the others keep their order
RECURSIVE ConvertResults(_)
ConvertResults(result) ==
  IF result = <<>> THEN <<>>
  ELSE LET item == Head(result)
           conversationID == PayloadConversationID(item.Payload)
       IN IF conversationID = EmptyString
            THEN ConvertResults(Tail(result))
            ELSE <<[ConversationID |-> conversationID, Score |-> item.Score]>>
                   \o ConvertResults(Tail(result))

\* ------------------------------------------------------ request processes
AllIds == SaveIds \cup UUIDs \cup HashIds \cup {IdG}

InitLoc ==
  [conversationID |-> EmptyString,
   textToEmbed |-> EmptyString,
   embedding |-> <<>>,
   now |-> 0,
   metadataStr |-> <<>>,
   limit |-> 0,
   searchResp |-> <<>>,
   searchResults |-> <<>>,
   failed |-> <<>>,
   calls |-> <<>>]

NoRequest == [none |-> TRUE]

NoReturn == [err |-> NoError, value |-> <<>>, null |-> TRUE]

NoExchange == [handler |-> "none"]

Failure(msg) == [err |-> msg, value |-> <<>>, null |-> TRUE]

Init ==
  /\ conversations = {}
  /\ points = {}
  /\ clock = 0
  /\ kind = [p \in Procs |-> "none"]
  /\ pc = [p \in Procs |-> "idle"]
  /\ req = [p \in Procs |-> NoRequest]
  /\ loc = [p \in Procs |-> InitLoc]
  /\ ret = [p \in Procs |-> NoReturn]
  /\ lastWrite = [id \in AllIds |-> NilPtr]
  /\ http = [p \in Procs |-> NoExchange]
  /\ personal_info = {}
  /\ issued = {}

\* time passes
Tick ==
  /\ clock < MaxClock
  /\ clock' = clock + 1
  /\ UNCHANGED <<personal_info, issued, conversations, points, kind, pc, req, loc, ret, lastWrite, http>>

\* ---------------------------------------- ConversationService.SaveConversation
\* the loop that joins the message contents, each followed by a space
RECURSIVE TextToEmbed(_)
TextToEmbed(messages) ==
  IF messages = <<>> THEN EmptyString
  ELSE Head(messages).Content \o <<" ">> \o TextToEmbed(Tail(messages))

MetadataStr(metadata) ==
  IF metadata # NilPtr THEN MarshalMetadata(metadata[1]) ELSE <<>>

NewConversation(l) ==
  [ID |-> l.conversationID,
   UserID |-> EmptyString,
   Question |-> l.textToEmbed,
   Answer |-> EmptyString,
   Metadata |-> l.metadataStr,
   CreatedAt |-> l.now,
   UpdatedAt |-> l.now]

\* mutant: no vector is reported
SaveResponseNoVectors(r, l) ==
  [ConversationID |-> l.conversationID,
   VectorsCreated |-> 0,
   MessagesStored |-> Len(r.Messages),
   StoredAt |-> l.now]

SaveResponse(r, l) ==
  [ConversationID |-> l.conversationID,
   VectorsCreated |-> 1,
   MessagesStored |-> Len(r.Messages),
   StoredAt |-> l.now]

\* mutant: the embedding error is logged and the save goes on
SaveAfterEmbedContinue(ok) == "save_relational"

\* where a save goes after Embed: an error returns at once
SaveAfterEmbed(ok) == IF ok THEN "save_relational" ELSE "done"

\* mutant: the relational error is logged and the save goes on
SaveAfterRelationalContinue(ok) == "save_vector"

\* where a save goes after the relational upsert: an error returns at once
SaveAfterRelational(ok) == IF ok THEN "save_vector" ELSE "done"

\* mutant: the vector store error fails the save
SaveVectorReturnHard(ok, r, l) ==
  IF ok
    THEN [err |-> NoError, value |-> Ptr(SaveResponse(r, l)), null |-> FALSE]
    ELSE Failure("failed to save vector")

\* what a save returns after SaveVector: its error is only logged
SaveVectorReturn(ok, r, l) ==
  [err |-> NoError, value |-> Ptr(SaveResponse(r, l)), null |-> FALSE]

\* a save request arrives: resolve the id, join the messages
SaveBegin(p, r, u) ==
  /\ pc[p] = "idle"
  /\ kind' = [kind EXCEPT ![p] = "save"]
  /\ req' = [req EXCEPT ![p] = r]
  /\ loc' = [loc EXCEPT ![p] =
       [InitLoc EXCEPT
          !.conversationID = IF r.ConversationID = EmptyString
                               THEN u ELSE r.ConversationID,
          !.textToEmbed = TextToEmbed(r.Messages)]]
  /\ pc' = [pc EXCEPT ![p] = "save_embed"]
  /\ UNCHANGED <<personal_info, issued, conversations, points, clock, ret, lastWrite, http>>

\* embeddingProvider.Embed; on success read the clock and marshal the metadata
SaveEmbed(p) ==
  /\ pc[p] = "save_embed"
  /\ \E ok \in BOOLEAN :
       /\ loc' = [loc EXCEPT ![p] =
            IF ok
              THEN [@ EXCEPT !.embedding = EmbeddingOf(loc[p].textToEmbed),
                             !.now = clock,
                             !.metadataStr = MetadataStr(req[p].Metadata),
                             !.calls = Append(@, "Embed")]
              ELSE [@ EXCEPT !.calls = Append(@, "Embed"),
                             !.failed = Append(@, "Embed")]]
       /\ ret' = IF ok THEN ret
                 ELSE [ret EXCEPT ![p] = Failure("failed to create embedding")]
       /\ pc' = [pc EXCEPT ![p] = SaveAfterEmbed(ok)]
  /\ UNCHANGED <<personal_info, issued, conversations, points, clock, kind, req, lastWrite, http>>

\* conversationStore.SaveConversation; a failure fails the save
SaveRelational(p) ==
  /\ pc[p] = "save_relational"
  /\ \E ok \in BOOLEAN :
       /\ conversations' = IF ok
            THEN PostgresSaveConversation(
                   conversations, NewConversation(loc[p]), clock)
            ELSE conversations
       /\ lastWrite' = IF ok
            THEN [lastWrite EXCEPT ![loc[p].conversationID] =
                    Ptr([Question |-> loc[p].textToEmbed,
                         Metadata |-> loc[p].metadataStr])]
            ELSE lastWrite
       /\ loc' = [loc EXCEPT ![p] =
            [@ EXCEPT !.calls = Append(@, "SaveConversation"),
                      !.failed = IF ok THEN @ ELSE Append(@, "SaveConversation")]]
       /\ ret' = IF ok THEN ret
                 ELSE [ret EXCEPT ![p] = Failure("failed to save conversation")]
       /\ pc' = [pc EXCEPT ![p] = SaveAfterRelational(ok)]
  /\ UNCHANGED <<personal_info, issued, points, clock, kind, req, http>>

\* mutant: after a failure the upsert is repeated until it goes through
SaveVectorRetry(p) ==
  /\ pc[p] = "save_vector"
  /\ \E ok \in BOOLEAN :
       /\ points' = QdrantUpsert(points,
                      SaveVectorPoint(loc[p].conversationID, loc[p].embedding,
                                      [created_at |-> JNumber(loc[p].now)]))
       /\ loc' = [loc EXCEPT ![p] =
            [@ EXCEPT !.calls = Append(@, "SaveVector"),
                      !.failed = IF ok THEN @ ELSE Append(@, "SaveVector")]]
       /\ ret' = [ret EXCEPT ![p] = SaveVectorReturn(ok, req[p], loc[p])]
  /\ pc' = [pc EXCEPT ![p] = "done"]
  /\ UNCHANGED <<personal_info, issued, conversations, clock, kind, req, lastWrite, http>>

\* vectorStore.SaveVector; a failure is logged and the save still succeeds
SaveVector(p) ==
  /\ pc[p] = "save_vector"
  /\ \E ok \in BOOLEAN :
       /\ points' = IF ok
            THEN QdrantUpsert(points,
                   SaveVectorPoint(loc[p].conversationID, loc[p].embedding,
                                   [created_at |-> JNumber(loc[p].now)]))
            ELSE points
       /\ loc' = [loc EXCEPT ![p] =
            [@ EXCEPT !.calls = Append(@, "SaveVector"),
                      !.failed = IF ok THEN @ ELSE Append(@, "SaveVector")]]
       /\ ret' = [ret EXCEPT ![p] = SaveVectorReturn(ok, req[p], loc[p])]
  /\ pc' = [pc EXCEPT ![p] = "done"]
  /\ UNCHANGED <<personal_info, issued, conversations, clock, kind, req, lastWrite, http>>

\* ------------------------------------- ConversationService.SearchConversations
\* mutant: only a negative limit counts as missing
EffectiveLimitFromZero(limit) ==
  IF limit < 0 \/ limit > MaxLimit THEN DefaultLimit ELSE limit

\* "Set default limit": a limit outside 1..100 is replaced by 10
EffectiveLimit(limit) ==
  IF limit <= 0 \/ limit > MaxLimit THEN DefaultLimit ELSE limit

ConversationIDs(searchResults) ==
  [i \in 1..Len(searchResults) |-> searchResults[i].ConversationID]

\* scoreMap[id]: the score of the last result of that id, 0 without one
ScoreMap(searchResults, id) ==
  LET idx == {i \in 1..Len(searchResults) : searchResults[i].ConversationID = id}
  IN IF idx = {} THEN 0
     ELSE searchResults[CHOOSE i \in idx : \A j \in idx : j <= i].Score

\* mutant: the view of the question alone
MessagesOfQuestion(conv) ==
  IF conv.Question # EmptyString
    THEN <<[Role |-> "user", Content |-> conv.Question]>> ELSE <<>>

MessagesOf(conv) ==
  (IF conv.Question # EmptyString
     THEN <<[Role |-> "user", Content |-> conv.Question]>> ELSE <<>>) \o
  (IF conv.Answer # EmptyString
     THEN <<[Role |-> "assistant", Content |-> conv.Answer]>> ELSE <<>>)

\* the loop over the fetched rows, in the order the store returned them
Responses(convs, searchResults) ==
  [i \in 1..Len(convs) |->
     [ConversationID |-> convs[i].ID,
      Score |-> ScoreMap(searchResults, convs[i].ID),
      Timestamp |-> convs[i].CreatedAt,
      Messages |-> MessagesOf(convs[i])]]

EmptyResults == [err |-> NoError, value |-> <<>>, null |-> FALSE]

\* mutant: no early return on no results
SearchAfterTopKHydrate(searchResults) == "search_hydrate"

\* where a search goes after SearchVectors: no results return at once
SearchAfterTopK(searchResults) ==
  IF Len(searchResults) = 0 THEN "done" ELSE "search_hydrate"

\* a search request arrives at the service with req.Limit = n
SearchBegin(p, q, n) ==
  /\ pc[p] = "idle"
  /\ kind' = [kind EXCEPT ![p] = "search"]
  /\ req' = [req EXCEPT ![p] = [Query |-> q, Limit |-> n]]
  /\ loc' = [loc EXCEPT ![p] = [InitLoc EXCEPT !.limit = EffectiveLimit(n)]]
  /\ pc' = [pc EXCEPT ![p] = "search_embed"]
  /\ UNCHANGED <<personal_info, issued, conversations, points, clock, ret, lastWrite, http>>

\* embeddingProvider.Embed of the query
SearchEmbed(p) ==
  /\ pc[p] = "search_embed"
  /\ \E ok \in BOOLEAN :
       IF ok
         THEN /\ loc' = [loc EXCEPT ![p] =
                   [@ EXCEPT !.embedding = EmbeddingOf(req[p].Query),
                             !.calls = Append(@, "Embed")]]
              /\ pc' = [pc EXCEPT ![p] = "search_topk"]
              /\ ret' = ret
         ELSE /\ loc' = [loc EXCEPT ![p] =
                   [@ EXCEPT !.calls = Append(@, "Embed"),
                             !.failed = Append(@, "Embed")]]
              /\ pc' = [pc EXCEPT ![p] = "done"]
              /\ ret' = [ret EXCEPT ![p] =
                   Failure("failed to create query embedding")]
  /\ UNCHANGED <<personal_info, issued, conversations, points, clock, kind, req, lastWrite, http>>

\* mutant: a search whose index call fails drops the collection
SearchVectorsDropping(p) ==
  /\ pc[p] = "search_topk"
  /\ \/ /\ loc' = [loc EXCEPT ![p] =
             [@ EXCEPT !.calls = Append(@, "SearchVectors"),
                       !.failed = Append(@, "SearchVectors")]]
        /\ pc' = [pc EXCEPT ![p] = "done"]
        /\ ret' = [ret EXCEPT ![p] = Failure("failed to search vectors")]
        /\ points' = {}
     \/ /\ \E reply \in QdrantSearchReplies(points, loc[p].limit) :
             LET searchResults == ConvertResults(reply)
             IN /\ loc' = [loc EXCEPT ![p] =
                     [@ EXCEPT !.searchResults = searchResults,
                               !.calls = Append(@, "SearchVectors")]]
                /\ pc' = [pc EXCEPT ![p] = SearchAfterTopK(searchResults)]
                /\ ret' = IF SearchAfterTopK(searchResults) = "done"
                            THEN [ret EXCEPT ![p] = EmptyResults]
                            ELSE ret
        /\ points' = points
  /\ UNCHANGED <<personal_info, issued, conversations, clock, kind, req, lastWrite, http>>

\* vectorStore.SearchVectors as one step: the request to the index, the
\* conversion of its reply, and the early return of the service on no results
SearchVectors(p) ==
  /\ pc[p] = "search_topk"
  /\ \/ /\ loc' = [loc EXCEPT ![p] =
             [@ EXCEPT !.calls = Append(@, "SearchVectors"),
                       !.failed = Append(@, "SearchVectors")]]
        /\ pc' = [pc EXCEPT ![p] = "done"]
        /\ ret' = [ret EXCEPT ![p] = Failure("failed to search vectors")]
     \/ \E reply \in QdrantSearchReplies(points, loc[p].limit) :
          LET searchResults == ConvertResults(reply)
          IN /\ loc' = [loc EXCEPT ![p] =
                  [@ EXCEPT !.searchResults = searchResults,
                            !.calls = Append(@, "SearchVectors")]]
             /\ pc' = [pc EXCEPT ![p] = SearchAfterTopK(searchResults)]
             /\ ret' = IF SearchAfterTopK(searchResults) = "done"
                         THEN [ret EXCEPT ![p] = EmptyResults]
                         ELSE ret
  /\ UNCHANGED <<personal_info, issued, conversations, points, clock, kind, req, lastWrite, http>>

\* the same in two steps.  First the request to the index and its decoded reply

SearchTopK(p) ==
  /\ pc[p] = "search_topk"
  /\ \/ /\ loc' = [loc EXCEPT ![p] =
             [@ EXCEPT !.calls = Append(@, "SearchVectors"),
                       !.failed = Append(@, "SearchVectors")]]
        /\ pc' = [pc EXCEPT ![p] = "done"]
        /\ ret' = [ret EXCEPT ![p] = Failure("failed to search vectors")]
     \/ \E reply \in QdrantSearchReplies(points, loc[p].limit) :
          /\ loc' = [loc EXCEPT ![p] =
               [@ EXCEPT !.searchResp = reply,
                         !.calls = Append(@, "SearchVectors")]]
          /\ pc' = [pc EXCEPT ![p] = "search_convert"]
          /\ ret' = ret
  /\ UNCHANGED <<personal_info, issued, conversations, points, clock, kind, req, lastWrite, http>>

\* then the conversion loop of SearchVectors and its return to the service,
\* which returns at once when there are no results
SearchConvert(p) ==
  /\ pc[p] = "search_convert"
  /\ LET searchResults == ConvertResults(loc[p].searchResp)
     IN /\ loc' = [loc EXCEPT ![p] =
             [@ EXCEPT !.searchResults = searchResults]]
        /\ pc' = [pc EXCEPT ![p] = SearchAfterTopK(searchResults)]
        /\ ret' = IF SearchAfterTopK(searchResults) = "done"
                    THEN [ret EXCEPT ![p] = EmptyResults]
                    ELSE ret
  /\ UNCHANGED <<personal_info, issued, conversations, points, clock, kind, req, lastWrite, http>>

\* mutant: the error of the batch fetch is dropped and an empty list returned
SearchHydrateIgnoreError(p) ==
  /\ pc[p] = "search_hydrate"
  /\ \/ /\ ret' = [ret EXCEPT ![p] = EmptyResults]
        /\ loc' = [loc EXCEPT ![p] =
             [@ EXCEPT !.calls = Append(@, "GetConversationsByIDs"),
                       !.failed = Append(@, "GetConversationsByIDs")]]
     \/ /\ \E convs \in PostgresGetConversationsByIDs(
                          conversations, ConversationIDs(loc[p].searchResults)) :
             ret' = [ret EXCEPT ![p] =
               [err |-> NoError,
                value |-> Responses(convs, loc[p].searchResults),
                null |-> Len(convs) = 0]]
        /\ loc' = [loc EXCEPT ![p].calls = Append(@, "GetConversationsByIDs")]
  /\ pc' = [pc EXCEPT ![p] = "done"]
  /\ UNCHANGED <<personal_info, issued, conversations, points, clock, kind, req, lastWrite, http>>

\* conversationStore.GetConversationsByIDs, then the merge with the scores
SearchHydrate(p) ==
  /\ pc[p] = "search_hydrate"
  /\ \/ /\ ret' = [ret EXCEPT ![p] = Failure("failed to get conversations")]
        /\ loc' = [loc EXCEPT ![p] =
             [@ EXCEPT !.calls = Append(@, "GetConversationsByIDs"),
                       !.failed = Append(@, "GetConversationsByIDs")]]
     \/ /\ \E convs \in PostgresGetConversationsByIDs(
                          conversations, ConversationIDs(loc[p].searchResults)) :
             ret' = [ret EXCEPT ![p] =
               [err |-> NoError,
                value |-> Responses(convs, loc[p].searchResults),
                null |-> Len(convs) = 0]]
        /\ loc' = [loc EXCEPT ![p].calls = Append(@, "GetConversationsByIDs")]
  /\ pc' = [pc EXCEPT ![p] = "done"]
  /\ UNCHANGED <<personal_info, issued, conversations, points, clock, kind, req, lastWrite, http>>

\* ----------------------------------------- ConversationService.GetConversation
ConversationResponse(conv) ==
  [ID |-> conv.ID,
   UserID |-> conv.UserID,
   Question |-> conv.Question,
   Answer |-> conv.Answer,
   Metadata |-> conv.Metadata,
   CreatedAt |-> conv.CreatedAt]

\* mutant: an absent row is reported as a failure of the store
GetConversationResultNoRows(rows, id) ==
  LET conversation == PostgresGetConversation(rows, id)
  IN IF conversation = NilPtr
       THEN Failure("failed to get conversation")
       ELSE [err |-> NoError,
             value |-> Ptr(ConversationResponse(conversation[1])),
             null |-> FALSE]

GetConversationResult(rows, id) ==
  LET conversation == PostgresGetConversation(rows, id)
  IN IF conversation = NilPtr
       THEN [err |-> NoError, value |-> NilPtr, null |-> TRUE]
       ELSE [err |-> NoError,
             value |-> Ptr(ConversationResponse(conversation[1])),
             null |-> FALSE]

GetConversation(p, id) ==
  /\ pc[p] = "idle"
  /\ kind' = [kind EXCEPT ![p] = "get"]
  /\ req' = [req EXCEPT ![p] = [ID |-> id]]
  /\ \/ /\ ret' = [ret EXCEPT ![p] = Failure("failed to get conversation")]
        /\ loc' = [loc EXCEPT ![p] =
             [InitLoc EXCEPT !.calls = <<"GetConversation">>,
                             !.failed = <<"GetConversation">>]]
     \/ /\ ret' = [ret EXCEPT ![p] = GetConversationResult(conversations, id)]
        /\ loc' = [loc EXCEPT ![p] =
             [InitLoc EXCEPT !.calls = <<"GetConversation">>]]
  /\ pc' = [pc EXCEPT ![p] = "done"]
  /\ UNCHANGED <<personal_info, issued, conversations, points, clock, lastWrite, http>>

\* the caller takes the returned value; the process can serve a new request
Return(p) ==
  /\ pc[p] = "done"
  /\ pc' = [pc EXCEPT ![p] = "idle"]
  /\ kind' = [kind EXCEPT ![p] = "none"]
  /\ req' = [req EXCEPT ![p] = NoRequest]
  /\ loc' = [loc EXCEPT ![p] = InitLoc]
  /\ ret' = [ret EXCEPT ![p] = NoReturn]
  /\ UNCHANGED <<personal_info, issued, conversations, points, clock, lastWrite, http>>

\* ------------------------------------------------------------ HTTP handlers
\* the values of the "query" parameter; an absent parameter reads as ""
HTTPQueries == {EmptyString, <<" ">>, <<"q">>, <<" ", "q", " ">>}

\* the "top_k" parameter: absent, or present with a text
TopKParams ==
  {NilPtr, Ptr(EmptyString), Ptr(<<"a">>), Ptr(<<"0">>), Ptr(<<"3">>),
   Ptr(<<"1", "0", "1">>), Ptr(<<"-", "1">>)}

\* the bodies a save request can carry
HTTPSaveBodies ==
  [ConversationID : {EmptyString, IdA},
   Messages : MessageLists \cup
     { <<>>,
       << [Role |-> "user", Content |-> EmptyString] >>,
       << [Role |-> "system", Content |-> <<"x">>] >> },
   Metadata : {NilPtr}]

StatusOK == 200

StatusCreated == 201

StatusBadRequest == 400
StatusNotFound == 404

StatusInternalServerError == 500

StatusServiceUnavailable == 503

\* strings.TrimSpace: leading and trailing white space removed
RECURSIVE TrimLeft(_)
TrimLeft(str) ==
  IF str # <<>> /\ Head(str) = " " THEN TrimLeft(Tail(str)) ELSE str

RECURSIVE TrimRight(_)
TrimRight(str) ==
  IF str # <<>> /\ str[Len(str)] = " "
    THEN TrimRight(SubSeq(str, 1, Len(str) - 1)) ELSE str

TrimSpace(str) == TrimRight(TrimLeft(str))

Digits == {"0", "1", "2", "3", "4", "5", "6", "7", "8", "9"}

DigitValue(c) ==
  CASE c = "0" -> 0 [] c = "1" -> 1 [] c = "2" -> 2 [] c = "3" -> 3
    [] c = "4" -> 4 [] c = "5" -> 5 [] c = "6" -> 6 [] c = "7" -> 7
    [] c = "8" -> 8 [] c = "9" -> 9

RECURSIVE DecimalValue(_, _)
DecimalValue(acc, str) ==
  IF str = <<>> THEN acc
  ELSE DecimalValue(acc * 10 + DigitValue(Head(str)), Tail(str))

\* strconv.Atoi: an optional sign and at least one decimal digit
Atoi(str) ==
  LET signed == str # <<>> /\ Head(str) \in {"-", "+"}
      digits == IF signed THEN Tail(str) ELSE str
  IN IF digits = <<>> \/ \E i \in 1..Len(digits) : digits[i] \notin Digits
       THEN [ok |-> FALSE, n |-> 0]
       ELSE [ok |-> TRUE,
             n |-> IF signed /\ Head(str) = "-"
                     THEN 0 - DecimalValue(0, digits)
                     ELSE DecimalValue(0, digits)]

\* c.DefaultQuery: the default only when the parameter is absent
DefaultQuery(param, default) == IF param = NilPtr THEN default ELSE param[1]

\* "Parse top_k" of the search handler
ParseTopK(param) ==
  LET topKStr == DefaultQuery(param, <<"5">>)
      k == Atoi(topKStr)
  IN IF topKStr # EmptyString /\ k.ok /\ k.n > 0 /\ k.n <= 100 THEN k.n ELSE 5

ErrorResponse(status, code, message) ==
  [Status |-> status, Success |-> FALSE, Code |-> code, Message |-> message,
   Data |-> NilPtr]

DataResponse(status, success, data) ==
  [Status |-> status, Success |-> success, Code |-> "", Message |-> "",
   Data |-> Ptr(data)]

\* SearchConversationHandler.Handle up to its call of the service: the empty
\* query is rejected, then the query is trimmed and handed to the service
SearchHandle(p, query, topKParam) ==
  /\ pc[p] = "idle"
  /\ LET topK == ParseTopK(topKParam)
         request == [Query |-> query, TopK |-> topKParam]
     IN IF query = EmptyString
          THEN /\ http' = [http EXCEPT ![p] =
                    [handler |-> "search", request |-> request,
                     response |-> Ptr(ErrorResponse(StatusBadRequest,
                       "INVALID_REQUEST", "Query text cannot be empty"))]]
               /\ pc' = [pc EXCEPT ![p] = "responded"]
               /\ UNCHANGED <<kind, req, loc>>
          ELSE /\ http' = [http EXCEPT ![p] =
                    [handler |-> "search", request |-> request,
                     response |-> NilPtr]]
               /\ kind' = [kind EXCEPT ![p] = "search"]
               /\ req' = [req EXCEPT ![p] =
                    [Query |-> TrimSpace(query), Limit |-> topK]]
               /\ loc' = [loc EXCEPT ![p] =
                    [InitLoc EXCEPT !.limit = EffectiveLimit(topK)]]
               /\ pc' = [pc EXCEPT ![p] = "search_embed"]
  /\ UNCHANGED <<personal_info, issued, conversations, points, clock, ret, lastWrite>>

\* SearchConversationHandler.Handle after the service returned
SearchRespond(p) ==
  /\ pc[p] = "done"
  /\ http[p].handler = "search"
  /\ http' = [http EXCEPT ![p].response =
       IF ret[p].err # NoError
         THEN Ptr(ErrorResponse(StatusInternalServerError, "INTERNAL_ERROR",
                                "failed to search conversations"))
         ELSE Ptr(DataResponse(StatusOK, TRUE,
                [Query |-> req[p].Query,
                 Results |-> ret[p].value,
                 TotalResults |-> Len(ret[p].value)]))]
  /\ pc' = [pc EXCEPT ![p] = "responded"]
  /\ UNCHANGED <<personal_info, issued, conversations, points, clock, kind, req, loc, ret, lastWrite>>

\* the validation of SaveConversationHandler.Handle: "" when the body passes
RECURSIVE MessagesError(_)
MessagesError(messages) ==
  IF messages = <<>> THEN ""
  ELSE IF Head(messages).Content = EmptyString
         THEN "message content cannot be empty"
  ELSE IF Head(messages).Role \notin {"user", "assistant"}
         THEN "invalid message role"
  ELSE MessagesError(Tail(messages))

SaveBodyError(body) ==
  IF body.ConversationID = EmptyString \/ Len(body.Messages) = 0
    THEN "conversation_id and messages are required"
    ELSE MessagesError(body.Messages)

\* SaveConversationHandler.Handle up to its call of the service
SaveHandle(p, bound, body, u) ==
  /\ pc[p] = "idle"
  /\ LET request == [Bound |-> bound, Body |-> body]
         message == IF ~bound THEN "Invalid request body"
                    ELSE SaveBodyError(body)
     IN IF message # ""
          THEN /\ http' = [http EXCEPT ![p] =
                    [handler |-> "save", request |-> request,
                     response |-> Ptr(ErrorResponse(StatusBadRequest,
                                        "INVALID_REQUEST", message))]]
               /\ pc' = [pc EXCEPT ![p] = "responded"]
               /\ UNCHANGED <<kind, req, loc>>
          ELSE /\ http' = [http EXCEPT ![p] =
                    [handler |-> "save", request |-> request,
                     response |-> NilPtr]]
               /\ kind' = [kind EXCEPT ![p] = "save"]
               /\ req' = [req EXCEPT ![p] = body]
               /\ loc' = [loc EXCEPT ![p] =
                    [InitLoc EXCEPT
                       !.conversationID = IF body.ConversationID = EmptyString
                                            THEN u ELSE body.ConversationID,
                       !.textToEmbed = TextToEmbed(body.Messages)]]
               /\ pc' = [pc EXCEPT ![p] = "save_embed"]
  /\ UNCHANGED <<personal_info, issued, conversations, points, clock, ret, lastWrite>>

\* "Build save response": the handler drops the response of the service and
\* builds its own from the request
HandlerSaveResponse(r, now) ==
  [ConversationID |-> r.ConversationID,
   VectorsCreated |-> 1,
   MessagesStored |-> Len(r.Messages),
   StoredAt |-> now]

\* SaveConversationHandler.Handle after the service returned
SaveRespond(p) ==
  /\ pc[p] = "done"
  /\ http[p].handler = "save"
  /\ http' = [http EXCEPT ![p].response =
       IF ret[p].err # NoError
         THEN Ptr(ErrorResponse(StatusInternalServerError, "INTERNAL_ERROR",
                                "failed to save conversation"))
         ELSE Ptr(DataResponse(StatusCreated, TRUE,
                               HandlerSaveResponse(req[p], clock)))]
  /\ pc' = [pc EXCEPT ![p] = "responded"]
  /\ UNCHANGED <<personal_info, issued, conversations, points, clock, kind, req, loc, ret, lastWrite>>

\* the outcomes of QdrantStore.CollectionExists
CollectionProbes == {"exists", "missing", "error"}

checkPostgreSQL(ping) == IF ping THEN "healthy" ELSE "unhealthy"

checkQdrant(collection) ==
  IF collection = "exists" THEN "healthy" ELSE "unhealthy"

\* no call is made: the status is always "healthy"
checkOpenAI == "healthy"

OverallStatus(pgStatus, qdrantStatus) ==
  LET afterPostgres == IF pgStatus # "healthy" THEN "unhealthy" ELSE "healthy"
  IN IF qdrantStatus # "healthy" /\ afterPostgres = "healthy"
       THEN "unhealthy" ELSE afterPostgres

\* HealthCheckHandler.Handle; ping, collection and openai are what the three
\* collaborators would answer at this moment
HealthHandle(p, ping, collection, openai) ==
  /\ pc[p] = "idle"
  /\ LET pgStatus == checkPostgreSQL(ping)
         qdrantStatus == checkQdrant(collection)
         overallStatus == OverallStatus(pgStatus, qdrantStatus)
     IN http' = [http EXCEPT ![p] =
          [handler |-> "health",
           request |-> [Ping |-> ping, Collection |-> collection,
                        OpenAI |-> openai],
           response |-> Ptr(DataResponse(
             IF overallStatus # "healthy"
               THEN StatusServiceUnavailable ELSE StatusOK,
             overallStatus = "healthy",
             [Status |-> overallStatus,
              Dependencies |-> [Qdrant |-> qdrantStatus,
                                PostgreSQL |-> pgStatus,
                                OpenAI |-> checkOpenAI]]))]]
  /\ pc' = [pc EXCEPT ![p] = "responded"]
  /\ UNCHANGED <<personal_info, issued, conversations, points, clock, kind, req, loc, ret, lastWrite>>

\* the response is written; the process can serve a new request
Finish(p) ==
  /\ pc[p] = "responded"
  /\ pc' = [pc EXCEPT ![p] = "idle"]
  /\ kind' = [kind EXCEPT ![p] = "none"]
  /\ req' = [req EXCEPT ![p] = NoRequest]
  /\ loc' = [loc EXCEPT ![p] = InitLoc]
  /\ ret' = [ret EXCEPT ![p] = NoReturn]
  /\ http' = [http EXCEPT ![p] = NoExchange]
  /\ UNCHANGED <<personal_info, issued, conversations, points, clock, lastWrite>>

\* ------------------------------------------------------ PersonalInfoHandler
\* the strings of the personal-info endpoints are compared with "" and with
\* each other only, and are kept whole
InfoIDs == {"i"}

InfoIDParams == {"", "i"}

CreateBodies ==
  {[UserID |-> "u", Content |-> "c", Category |-> "k", Importance |-> "low"]}

UpdateBodies ==
  [Content : {"", "c2"}, Category : {"", "k2"}, Importance : {"", "high", "urgent"}]

InfoWithID(rows, id) == {r \in rows : r.ID = id}

\* INSERT ... ON CONFLICT (id) DO UPDATE SET content, category, importance,
\* updated_at
PostgresSavePersonalInfo(rows, info) ==
  IF InfoWithID(rows, info.ID) # {}
    THEN {IF r.ID = info.ID
            THEN [r EXCEPT !.Content = info.Content,
                           !.Category = info.Category,
                           !.Importance = info.Importance,
                           !.UpdatedAt = info.UpdatedAt]
            ELSE r : r \in rows}
    ELSE rows \cup {info}

\* SELECT ... WHERE id = $1: the row, or nil for sql.ErrNoRows
PostgresGetPersonalInfo(rows, id) ==
  IF InfoWithID(rows, id) = {} THEN NilPtr
  ELSE Ptr(CHOOSE r \in InfoWithID(rows, id) : TRUE)

\* UPDATE personal_info SET content, category, importance, updated_at
\* WHERE id = $5
PostgresUpdatePersonalInfo(rows, info) ==
  {IF r.ID = info.ID
     THEN [r EXCEPT !.Content = info.Content,
                    !.Category = info.Category,
                    !.Importance = info.Importance,
                    !.UpdatedAt = info.UpdatedAt]
     ELSE r : r \in rows}

\* DELETE FROM personal_info WHERE id = $1
PostgresDeletePersonalInfo(rows, id) == {r \in rows : r.ID # id}

\* the number of rows an UPDATE or a DELETE by id affects
RowsAffected(rows, id) == Cardinality(InfoWithID(rows, id))

PersonalInfoResponse(info) == [PersonalInfo |-> info]

\* the exchange of a personal-info handler: the local copy of the row, whether
\* a call of the store failed, and whether the entry was missing when the
\* handler's last statement ran at the store
InfoExchange(handler, request) ==
  [handler |-> handler, request |-> request, personalInfo |-> NilPtr,
   failed |-> FALSE, missing |-> FALSE, response |-> NilPtr]

\* PersonalInfoHandler.CreatePersonalInfo
CreatePersonalInfo(p, bound, body, id) ==
  /\ pc[p] = "idle"
  /\ id \notin issued
  /\ LET x == InfoExchange("info_create", [Body |-> body])
         info == [ID |-> id, UserID |-> body.UserID, Content |-> body.Content,
                  Category |-> body.Category, Importance |-> body.Importance,
                  CreatedAt |-> clock, UpdatedAt |-> clock]
     IN IF ~bound
          THEN /\ http' = [http EXCEPT ![p] =
                    [x EXCEPT !.response = Ptr(ErrorResponse(StatusBadRequest,
                       "INVALID_REQUEST", "Invalid request body"))]]
               /\ UNCHANGED <<personal_info, issued>>
          ELSE \E ok \in BOOLEAN :
               /\ issued' = issued \cup {id}
               /\ personal_info' =
                    IF ok THEN PostgresSavePersonalInfo(personal_info, info)
                    ELSE personal_info
               /\ http' = [http EXCEPT ![p] =
                    [x EXCEPT !.failed = ~ok,
                              !.response =
                       IF ok THEN Ptr(DataResponse(StatusCreated, TRUE,
                                        PersonalInfoResponse(info)))
                       ELSE Ptr(ErrorResponse(StatusInternalServerError,
                              "INTERNAL_ERROR",
                              "failed to create personal information"))]]
  /\ pc' = [pc EXCEPT ![p] = "responded"]
  /\ UNCHANGED <<conversations, points, clock, kind, req, loc, ret, lastWrite>>

\* the binding of a PersonalInfoUpdateRequest: omitempty,oneof=high medium low
UpdateBindError(bound, body) ==
  ~bound \/ body.Importance \notin {"", "high", "medium", "low"}

\* "Update fields": the fields of the request that are not empty, and the time
UpdateFields(info, body, now) ==
  [info EXCEPT
     !.Content = IF body.Content # "" THEN body.Content ELSE @,
     !.Category = IF body.Category # "" THEN body.Category ELSE @,
     !.Importance = IF body.Importance # "" THEN body.Importance ELSE @,
     !.UpdatedAt = now]

\* what both handlers answer before they write: the missing id, the failed
\* read and the missing entry
InfoNotFound ==
  ErrorResponse(StatusNotFound, "PERSONAL_INFO_NOT_FOUND",
                "personal information not found")

InfoGetFailed ==
  ErrorResponse(StatusInternalServerError, "INTERNAL_ERROR",
                "failed to get personal information")

InfoIDRequired ==
  ErrorResponse(StatusBadRequest, "INVALID_REQUEST", "info_id is required")

\* PersonalInfoHandler.UpdatePersonalInfo up to its write: the checks of the
\* request, GetPersonalInfo, and the update of the fields of the copy
UpdatePersonalInfoGet(p, infoID, bound, body) ==
  /\ pc[p] = "idle"
  /\ LET x == InfoExchange("info_update", [InfoID |-> infoID, Body |-> body])
     IN IF infoID = ""
          THEN /\ http' = [http EXCEPT ![p] =
                    [x EXCEPT !.response = Ptr(InfoIDRequired)]]
               /\ pc' = [pc EXCEPT ![p] = "responded"]
        ELSE IF UpdateBindError(bound, body)
          THEN /\ http' = [http EXCEPT ![p] =
                    [x EXCEPT !.response = Ptr(ErrorResponse(StatusBadRequest,
                       "INVALID_REQUEST", "Invalid request body"))]]
               /\ pc' = [pc EXCEPT ![p] = "responded"]
        ELSE \E ok \in BOOLEAN :
               LET got == PostgresGetPersonalInfo(personal_info, infoID)
               IN IF ~ok
                    THEN /\ http' = [http EXCEPT ![p] =
                              [x EXCEPT !.failed = TRUE,
                                        !.response = Ptr(InfoGetFailed)]]
                         /\ pc' = [pc EXCEPT ![p] = "responded"]
                  ELSE IF got = NilPtr
                    THEN /\ http' = [http EXCEPT ![p] =
                              [x EXCEPT !.missing = TRUE,
                                        !.response = Ptr(InfoNotFound)]]
                         /\ pc' = [pc EXCEPT ![p] = "responded"]
                  ELSE /\ http' = [http EXCEPT ![p] =
                            [x EXCEPT !.personalInfo =
                               Ptr(UpdateFields(got[1], body, clock))]]
                       /\ pc' = [pc EXCEPT ![p] = "info_update"]
  /\ UNCHANGED <<personal_info, issued, conversations, points, clock, kind,
                 req, loc, ret, lastWrite>>

\* personalInfoStore.UpdatePersonalInfo and the answer: the store reports an
\* error when the statement failed and when it affected no row
UpdatePersonalInfoWrite(p) ==
  /\ pc[p] = "info_update"
  /\ \E ok \in BOOLEAN :
       LET info == http[p].personalInfo[1]
           affected == RowsAffected(personal_info, info.ID)
       IN /\ personal_info' =
               IF ok THEN PostgresUpdatePersonalInfo(personal_info, info)
               ELSE personal_info
          /\ http' = [http EXCEPT ![p] =
               [@ EXCEPT !.failed = ~ok,
                         !.missing = (affected = 0),
                         !.response =
                  IF ~ok \/ affected = 0
                    THEN Ptr(ErrorResponse(StatusInternalServerError,
                           "INTERNAL_ERROR",
                           "failed to update personal information"))
                    ELSE Ptr(DataResponse(StatusOK, TRUE,
                           PersonalInfoResponse(info)))]]
  /\ pc' = [pc EXCEPT ![p] = "responded"]
  /\ UNCHANGED <<issued, conversations, points, clock, kind, req, loc, ret,
                 lastWrite>>

\* PersonalInfoHandler.DeletePersonalInfo up to its write
DeletePersonalInfoGet(p, infoID) ==
  /\ pc[p] = "idle"
  /\ LET x == InfoExchange("info_delete", [InfoID |-> infoID])
     IN IF infoID = ""
          THEN /\ http' = [http EXCEPT ![p] =
                    [x EXCEPT !.response = Ptr(InfoIDRequired)]]
               /\ pc' = [pc EXCEPT ![p] = "responded"]
        ELSE \E ok \in BOOLEAN :
               LET got == PostgresGetPersonalInfo(personal_info, infoID)
               IN IF ~ok
                    THEN /\ http' = [http EXCEPT ![p] =
                              [x EXCEPT !.failed = TRUE,
                                        !.response = Ptr(InfoGetFailed)]]
                         /\ pc' = [pc EXCEPT ![p] = "responded"]
                  ELSE IF got = NilPtr
                    THEN /\ http' = [http EXCEPT ![p] =
                              [x EXCEPT !.missing = TRUE,
                                        !.response = Ptr(InfoNotFound)]]
                         /\ pc' = [pc EXCEPT ![p] = "responded"]
                  ELSE /\ http' = [http EXCEPT ![p] =
                            [x EXCEPT !.personalInfo = got]]
                       /\ pc' = [pc EXCEPT ![p] = "info_delete"]
  /\ UNCHANGED <<personal_info, issued, conversations, points, clock, kind,
                 req, loc, ret, lastWrite>>

\* personalInfoStore.DeletePersonalInfo and the answer
DeletePersonalInfoWrite(p) ==
  /\ pc[p] = "info_delete"
  /\ \E ok \in BOOLEAN :
       LET infoID == http[p].request.InfoID
           affected == RowsAffected(personal_info, infoID)
       IN /\ personal_info' =
               IF ok THEN PostgresDeletePersonalInfo(personal_info, infoID)
               ELSE personal_info
          /\ http' = [http EXCEPT ![p] =
               [@ EXCEPT !.failed = ~ok,
                         !.missing = (affected = 0),
                         !.response =
                  IF ~ok \/ affected = 0
                    THEN Ptr(ErrorResponse(StatusInternalServerError,
                           "INTERNAL_ERROR",
                           "failed to delete personal information"))
                    ELSE Ptr(DataResponse(StatusOK, TRUE,
                           [DeletedInfoID |-> infoID]))]]
  /\ pc' = [pc EXCEPT ![p] = "responded"]
  /\ UNCHANGED <<issued, conversations, points, clock, kind, req, loc, ret,
                 lastWrite>>

\* ------------------------------------------- OpenAIEmbeddingProvider.EmbedBatch
Texts == {<<"x">>, <<"y">>}

BatchTexts == UNION {[1..n -> Texts] : n \in 0..MaxBatch}

\* the entries CreateEmbeddings can return for the texts: one per text, under
\* its index, and one under an index past the texts
BatchEntries(texts) ==
  {[Index |-> i, Embedding |-> EmbeddingOf(texts[i + 1])] :
     i \in 0..(Len(texts) - 1)} \cup
  {[Index |-> Len(texts), Embedding |-> EmbeddingOf(<<"z">>)]}

\* resp.Data: some of the entries, each at most once, in any order
BatchReplies(texts) ==
  LET entries == BatchEntries(texts)
  IN UNION { {f \in [1..k -> entries] :
                \A i, j \in 1..k : i # j => f[i] # f[j]} :
             k \in 0..Cardinality(entries) }

\* mutant: the embeddings are taken in the order of the reply
EmbedBatchLoopInOrder(embeddings, data) ==
  [i \in 1..Len(embeddings) |->
     IF i <= Len(data) THEN data[i].Embedding ELSE NilPtr]

\* the loop over resp.Data: every entry is stored under its index
RECURSIVE EmbedBatchLoop(_, _)
EmbedBatchLoop(embeddings, data) ==
  IF data = <<>> THEN embeddings
  ELSE LET d == Head(data)
       IN EmbedBatchLoop(
            IF d.Index < Len(embeddings)
              THEN [embeddings EXCEPT ![d.Index + 1] = d.Embedding]
              ELSE embeddings,
            Tail(data))

\* EmbedBatch for a call of CreateEmbeddings that failed (~ok) or returned data
EmbedBatch(texts, ok, data) ==
  IF ~ok THEN Failure("failed to create batch embeddings")
  ELSE IF Len(data) = 0 THEN Failure("no embedding data returned from openai")
  ELSE [err |-> NoError,
        value |-> EmbedBatchLoop([i \in 1..Len(texts) |-> NilPtr], data),
        null |-> FALSE]

\* a caller embeds a batch of texts
EmbedBatchCall(p, texts, ok, data) ==
  /\ pc[p] = "idle"
  /\ kind' = [kind EXCEPT ![p] = "embed_batch"]
  /\ req' = [req EXCEPT ![p] = [Texts |-> texts, OK |-> ok, Data |-> data]]
  /\ ret' = [ret EXCEPT ![p] = EmbedBatch(texts, ok, data)]
  /\ pc' = [pc EXCEPT ![p] = "done"]
  /\ UNCHANGED <<personal_info, issued, conversations, points, clock, loc, lastWrite, http>>

\* ------------------------------------------------- QdrantStore.DeleteVector
\* POST /points/delete with a list of point ids
QdrantDelete(pts, ids) == {q \in pts : q.id \notin ids}

DeleteVectorCall(p, conversationID) ==
  /\ pc[p] = "idle"
  /\ kind' = [kind EXCEPT ![p] = "delete_vector"]
  /\ req' = [req EXCEPT ![p] = [ConversationID |-> conversationID]]
  /\ \E ok \in BOOLEAN :
       /\ points' = IF ok
            THEN QdrantDelete(points, {hashConversationID(conversationID)})
            ELSE points
       /\ ret' = [ret EXCEPT ![p] =
            IF ok THEN [err |-> NoError, value |-> <<>>, null |-> FALSE]
            ELSE Failure("failed to execute request")]
  /\ pc' = [pc EXCEPT ![p] = "done"]
  /\ UNCHANGED <<personal_info, issued, conversations, clock, loc, lastWrite, http>>

\* -------------------------------------------- other writers of the two stores
\* points of the collection that no save of this service wrote: one of an
\* id without a row, one that carries the id of a stored conversation
ForeignPoints ==
  { [id |-> 14, vector |-> EmbeddingOf(<<"g">>),
     payload |-> SaveVectorPayload(IdG, [created_at |-> JNumber(0)])],
    [id |-> 15, vector |-> EmbeddingOf(<<"x">>),
     payload |-> SaveVectorPayload(IdA, [created_at |-> JNumber(0)])] }

ForeignUpsert(point) ==
  /\ point \notin points
  /\ points' = QdrantUpsert(points, point)
  /\ UNCHANGED <<personal_info, issued, conversations, clock, kind, pc, req, loc, ret, lastWrite, http>>

\* the conversations the earlier SaveConversation stored: a question and an
\* answer, either of which can be empty
LegacyConversations ==
  {[ID |-> IdC, UserID |-> <<"u">>, Question |-> q, Answer |-> a,
    Metadata |-> <<>>, CreatedAt |-> 0, UpdatedAt |-> 0] :
     q \in {EmptyString, <<"x">>}, a \in {EmptyString, <<"y">>}}

\* a save of the earlier SaveConversation: the row, then the point of the
\* embedding of the question
LegacySave(conv) ==
  /\ RowsWithID(conversations, conv.ID) = {}
  /\ conversations' = PostgresSaveConversation(conversations, conv, clock)
  /\ points' = QdrantUpsert(points,
       [id |-> hashConversationID(conv.ID),
        vector |-> EmbeddingOf(conv.Question),
        payload |-> [conversation_id |-> JString(conv.ID),
                     created_at |-> JNumber(conv.CreatedAt),
                     user_id |-> JString(conv.UserID)]])
  /\ UNCHANGED <<personal_info, issued, clock, kind, pc, req, loc, ret,
               lastWrite, http>>

\* ----------------------------------------------------------- specifications
\* Steps every request process can take once its request has arrived.
SaveSteps ==
  \/ \E p \in Procs : SaveEmbed(p)
  \/ \E p \in Procs : SaveRelational(p)
  \/ \E p \in Procs : SaveVector(p)

\* Spec: one process saves and reads conversations while another searches.
Next ==
  \/ Tick
  \/ \E r \in ConcurrentRequests : \E u \in UUIDs : SaveBegin("p1", r, u)
  \/ SaveSteps
  \/ \E q \in Queries : \E n \in RankedLimits : SearchBegin("p2", q, n)
  \/ SearchEmbed("p2")
  \/ SearchVectors("p2")
  \/ SearchHydrate("p2")
  \/ \E id \in ConcurrentIds : GetConversation("p1", id)
  \/ \E p \in Procs : Return(p)

Spec == Init /\ [][Next]_vars

\* SpecSave: saves of every request body and reads, one after the other.
NextSave ==
  \/ Tick
  \/ \E r \in SaveRequests : \E u \in UUIDs : SaveBegin("p1", r, u)
  \/ SaveSteps
  \/ \E id \in SaveIds : GetConversation("p1", id)
  \/ Return("p1")

SpecSave == Init /\ [][NextSave]_vars

\* SpecLimit: searches with every requested count over a stored conversation.
NextLimit ==
  \/ \E r \in LimitRequests : \E u \in UUIDs : SaveBegin("p1", r, u)
  \/ SaveSteps
  \/ \E q \in Queries : \E n \in Limits : SearchBegin("p2", q, n)
  \/ SearchEmbed("p2")
  \/ SearchVectors("p2")
  \/ SearchHydrate("p2")
  \/ \E p \in Procs : Return(p)

SpecLimit == Init /\ [][NextLimit]_vars

\* SpecVectors: as Spec without the clock, with the decoded reply of the
\* index kept until SearchVectors has converted it.
NextVectors ==
  \/ \E r \in ConcurrentRequests : \E u \in UUIDs : SaveBegin("p1", r, u)
  \/ SaveSteps
  \/ \E q \in Queries : \E n \in ConcurrentLimits : SearchBegin("p2", q, n)
  \/ SearchEmbed("p2")
  \/ SearchTopK("p2")
  \/ SearchConvert("p2")
  \/ SearchHydrate("p2")
  \/ \E p \in Procs : Return(p)

SpecVectors == Init /\ [][NextVectors]_vars

\* SpecResave: repeated saves of one id with changing messages, and searches.
NextResave ==
  \/ \E r \in ResaveRequests : \E u \in UUIDs : SaveBegin("p1", r, u)
  \/ SaveSteps
  \/ \E q \in Queries : SearchBegin("p2", q, 1)
  \/ SearchEmbed("p2")
  \/ SearchVectors("p2")
  \/ SearchHydrate("p2")
  \/ \E p \in Procs : Return(p)

SpecResave == Init /\ [][NextResave]_vars

\* SpecHTTP: one process serves requests of the three endpoints in turn.
NextHTTP ==
  \/ \E q \in HTTPQueries : \E k \in TopKParams : SearchHandle("p1", q, k)
  \/ \E bound \in BOOLEAN : \E body \in HTTPSaveBodies : \E u \in UUIDs :
       SaveHandle("p1", bound, body, u)
  \/ \E ping \in BOOLEAN : \E collection \in CollectionProbes :
       \E openai \in BOOLEAN : HealthHandle("p1", ping, collection, openai)
  \/ SaveSteps
  \/ SearchEmbed("p1")
  \/ SearchVectors("p1")
  \/ SearchHydrate("p1")
  \/ SearchRespond("p1")
  \/ SaveRespond("p1")
  \/ Finish("p1")

SpecHTTP == Init /\ [][NextHTTP]_vars

\* SpecHash: saves of ids that collide or hash to 0, and searches.
NextHash ==
  \/ \E r \in HashRequests : \E u \in UUIDs : SaveBegin("p1", r, u)
  \/ SaveSteps
  \/ \E q \in Queries : SearchBegin("p2", q, 1)
  \/ SearchEmbed("p2")
  \/ SearchVectors("p2")
  \/ SearchHydrate("p2")
  \/ \E p \in Procs : Return(p)

SpecHash == Init /\ [][NextHash]_vars

\* SpecEmbed: batches of texts are embedded, with every reply of the upstream.
NextEmbed ==
  \/ \E texts \in BatchTexts : \E ok \in BOOLEAN :
       \E data \in BatchReplies(texts) : EmbedBatchCall("p1", texts, ok, data)
  \/ Return("p1")

SpecEmbed == Init /\ [][NextEmbed]_vars

\* SpecHits: searches over a collection and a table that other writers have
\* written to as well.
NextHits ==
  \/ \E r \in ResaveRequests : \E u \in UUIDs : SaveBegin("p1", r, u)
  \/ SaveSteps
  \/ \E point \in ForeignPoints : ForeignUpsert(point)
  \/ \E conv \in LegacyConversations : LegacySave(conv)
  \/ \E q \in Queries : \E n \in RankedLimits : SearchBegin("p2", q, n)
  \/ SearchEmbed("p2")
  \/ SearchVectors("p2")
  \/ SearchHydrate("p2")
  \/ \E p \in Procs : Return(p)

SpecHits == Init /\ [][NextHits]_vars

\* SpecPoints: saves of ids whose hashes collide or are 0, and deletions of
\* their vectors.
NextPoints ==
  \/ \E r \in HashRequests : \E u \in UUIDs : SaveBegin("p1", r, u)
  \/ SaveSteps
  \/ \E id \in HashIds : DeleteVectorCall("p2", id)
  \/ \E p \in Procs : Return(p)

SpecPoints == Init /\ [][NextPoints]_vars

\* SpecRace: two callers save the same id at the same time.
NextRace ==
  \/ Tick
  \/ \E p \in Procs : \E u \in UUIDs : SaveBegin(p, RaceRequests[p], u)
  \/ SaveSteps
  \/ \E p \in Procs : Return(p)

SpecRace == Init /\ [][NextRace]_vars

\* SpecInfo: two callers create, update and delete personal-info entries at
\* the same time.
NextInfo ==
  \/ Tick
  \/ \E p \in Procs : \E bound \in BOOLEAN : \E body \in CreateBodies :
       \E id \in InfoIDs : CreatePersonalInfo(p, bound, body, id)
  \/ \E p \in Procs : \E infoID \in InfoIDParams : \E bound \in BOOLEAN :
       \E body \in UpdateBodies : UpdatePersonalInfoGet(p, infoID, bound, body)
  \/ \E p \in Procs : UpdatePersonalInfoWrite(p)
  \/ \E p \in Procs : \E infoID \in InfoIDParams : DeletePersonalInfoGet(p, infoID)
  \/ \E p \in Procs : DeletePersonalInfoWrite(p)
  \/ \E p \in Procs : Finish(p)

SpecInfo == Init /\ [][NextInfo]_vars

\* ------------------------------------------------------------------ claims
Failed(p, call) == call \in SeqRange(loc[p].failed)

Called(p, call) == call \in SeqRange(loc[p].calls)

Succeeded(p, call) == Called(p, call) /\ ~Failed(p, call)

\* C1: a save whose Embed and relational upsert succeeded and whose vector
\* upsert failed has returned success, with the response for its id, and the
\* relational store holds a row under that id.
C1_PartialFailureTolerance ==
  \A p \in Procs :
    (kind[p] = "save" /\ Failed(p, "SaveVector")) =>
      /\ Succeeded(p, "Embed") /\ Succeeded(p, "SaveConversation")
      /\ pc[p] = "done"
      /\ ret[p].err = NoError
      /\ ret[p].null = FALSE
      /\ ret[p].value[1].ConversationID = loc[p].conversationID
      /\ RowsWithID(conversations, loc[p].conversationID) # {}

C1_Witness ==
  \E p \in Procs :
    /\ kind[p] = "save" /\ pc[p] = "done"
    /\ loc[p].failed = <<"SaveVector">>
    /\ ret[p].err = NoError

\* C2: a save whose Embed failed has returned an error and has made no other
\* call (no upsert into either store), and the step in which Embed fails
\* leaves both stores unchanged.
C2_EmbedHardFailure ==
  /\ [](\A p \in Procs :
          (kind[p] = "save" /\ Failed(p, "Embed")) =>
            /\ pc[p] = "done"
            /\ ret[p].err # NoError
            /\ ret[p].null
            /\ loc[p].calls = <<"Embed">>)
  /\ [][\A p \in Procs :
          (kind[p] = "save" /\ pc[p] # "idle" /\ pc'[p] # pc[p]
             /\ "Embed" \in SeqRange(loc'[p].failed))
            => UNCHANGED stores]_vars

C2_Witness ==
  \E p \in Procs :
    /\ kind[p] = "save" /\ pc[p] = "done"
    /\ loc[p].failed = <<"Embed">>
    /\ conversations # {}

\* C3: a save whose relational upsert failed has returned an error and has
\* not called SaveVector, and the step in which the upsert fails leaves the
\* vector index (and the table) unchanged.
C3_RelationalHardFailure ==
  /\ [](\A p \in Procs :
          (kind[p] = "save" /\ Failed(p, "SaveConversation")) =>
            /\ pc[p] = "done"
            /\ ret[p].err # NoError
            /\ ret[p].null
            /\ ~Called(p, "SaveVector"))
  /\ [][\A p \in Procs :
          (kind[p] = "save" /\ pc[p] # "idle" /\ pc'[p] # pc[p]
             /\ "SaveConversation" \in SeqRange(loc'[p].failed))
            => UNCHANGED stores]_vars

C3_Witness ==
  \E p \in Procs :
    /\ kind[p] = "save" /\ pc[p] = "done"
    /\ loc[p].failed = <<"SaveConversation">>
    /\ points # {}

\* C4: every point of the vector index carries a string conversation id in
\* its payload, and the relational store holds a row under that id, in every
\* state of concurrent saves and searches with failing collaborators.
C4_PointHasRecord ==
  \A pt \in points :
    /\ PayloadConversationID(pt.payload) # EmptyString
    /\ RowsWithID(conversations, PayloadConversationID(pt.payload)) # {}

C4_Witness ==
  /\ Cardinality(points) = 2
  /\ pc["p1"] = "save_vector"
  /\ pc["p2"] = "search_hydrate"

\* C5: a read of an id after a successful save of that id returns the text
\* and the metadata that this save passed to the relational store, also when
\* an earlier save had stored the id with another content.
C5_RoundTrip ==
  \A p \in Procs :
    (/\ kind[p] = "get" /\ pc[p] = "done" /\ ret[p].err = NoError
     /\ lastWrite[req[p].ID] # NilPtr) =>
      /\ ret[p].null = FALSE
      /\ ret[p].value[1].Question = lastWrite[req[p].ID][1].Question
      /\ ret[p].value[1].Metadata = lastWrite[req[p].ID][1].Metadata

PointsWithID(pts, id) == {q \in pts : PayloadConversationID(q.payload) = id}

\* C6: the table holds exactly one row per saved id and the index at most
\* one point per saved id, and an upsert of an id that is already stored
\* changes neither the number of rows nor the number of points.
C6_UpsertIdempotence ==
  /\ [](\A id \in AllIds :
          /\ lastWrite[id] # NilPtr =>
               Cardinality(RowsWithID(conversations, id)) = 1
          /\ lastWrite[id] = NilPtr => RowsWithID(conversations, id) = {}
          /\ Cardinality(PointsWithID(points, id)) <= 1)
  /\ [][\A p \in Procs :
          (/\ pc[p] = "save_relational" /\ pc'[p] = "save_vector"
           /\ RowsWithID(conversations, loc[p].conversationID) # {})
            => Cardinality(conversations') = Cardinality(conversations)]_vars
  /\ [][\A p \in Procs :
          (/\ pc[p] = "save_vector" /\ pc'[p] = "done"
           /\ PointsWithID(points, loc[p].conversationID) # {})
            => Cardinality(points') = Cardinality(points)]_vars

C6_Witness ==
  \E r \in conversations : \E q \in points :
    /\ r.UpdatedAt > r.CreatedAt
    /\ PayloadConversationID(q.payload) = r.ID
    /\ q.payload.created_at = JNumber(r.UpdatedAt)
    /\ Cardinality(conversations) = 2

\* C7: the results of a successful search are in descending order of score.
C7_ResultsByScoreDescending ==
  \A p \in Procs :
    (kind[p] = "search" /\ pc[p] = "done" /\ ret[p].err = NoError) =>
      \A i \in 1..Len(ret[p].value) : \A j \in 1..Len(ret[p].value) :
        i < j => ret[p].value[i].Score >= ret[p].value[j].Score

\* C8 as claimed: the count passed to the index is the requested count
\* clamped into 1..100: the default for n <= 0, the cap 100 for n > 100.
C8_LimitClampedToCap ==
  \A p \in Procs :
    (kind[p] = "search" /\ Called(p, "SearchVectors")) =>
      loc[p].limit = IF req[p].Limit <= 0 THEN 10
                     ELSE IF req[p].Limit > 100 THEN 100
                     ELSE req[p].Limit

\* C8 as amended: the count passed to the index is the requested count n
\* when 1 <= n <= 100 and the default 10 otherwise (n <= 0 or n > 100); it
\* always lies in 1..100 and no more hits than that come back.
C8_LimitInRangeOrDefault ==
  \A p \in Procs :
    (kind[p] = "search" /\ Called(p, "SearchVectors")) =>
      /\ loc[p].limit = IF 1 <= req[p].Limit /\ req[p].Limit <= 100
                          THEN req[p].Limit ELSE 10
      /\ 1 <= loc[p].limit /\ loc[p].limit <= 100
      /\ Len(loc[p].searchResults) <= loc[p].limit

C8_Witness ==
  \E p \in Procs :
    /\ kind[p] = "search" /\ Succeeded(p, "SearchVectors")
    /\ req[p].Limit = 1000
    /\ loc[p].limit = 10
    /\ Len(loc[p].searchResults) = 1

\* C9: a search whose index reply leaves no hit (an empty reply, or every
\* item discarded) has returned an empty, non-nil list without error and
\* has not called the relational store.
C9_EmptySearch ==
  \A p \in Procs :
    (/\ kind[p] = "search" /\ Succeeded(p, "SearchVectors")
     /\ pc[p] # "search_convert"
     /\ loc[p].searchResults = <<>>) =>
      /\ pc[p] = "done"
      /\ ret[p].err = NoError
      /\ ret[p].null = FALSE
      /\ Len(ret[p].value) = 0
      /\ ~Called(p, "GetConversationsByIDs")

C9_Witness ==
  \E p \in Procs :
    /\ kind[p] = "search" /\ pc[p] = "done"
    /\ Len(loc[p].searchResp) = 2
    /\ loc[p].searchResults = <<>>
    /\ conversations # {}

\* a payload with a non-empty string under "conversation_id"
HasStringID(payload) ==
  /\ "conversation_id" \in DOMAIN payload
  /\ payload.conversation_id.t = "string"
  /\ payload.conversation_id.v # EmptyString

GoodHits(resp) == {i \in 1..Len(resp) : HasStringID(resp[i].Payload)}

\* C10: the hits SearchVectors returns are exactly the reply items that carry
\* a string conversation id, in reply order with their scores; an item
\* without one makes no search fail (only the relational fetch can still
\* fail), and a successful search returns a result for every other hit.
C10_MalformedHitsDropped ==
  \A p \in Procs :
    (/\ kind[p] = "search" /\ Succeeded(p, "SearchVectors")
     /\ pc[p] # "search_convert") =>
      LET resp == loc[p].searchResp
          res == loc[p].searchResults
          good == GoodHits(resp)
      IN /\ Len(res) = Cardinality(good)
         /\ \A i \in good :
              res[Cardinality({j \in good : j <= i})] =
                [ConversationID |-> resp[i].Payload.conversation_id.v,
                 Score |-> resp[i].Score]
         /\ (pc[p] = "done" /\ ret[p].err # NoError)
              => Failed(p, "GetConversationsByIDs")
         /\ (pc[p] = "done" /\ ret[p].err = NoError) =>
              /\ \A k \in 1..Len(ret[p].value) :
                   ret[p].value[k].ConversationID # EmptyString
              /\ \A i \in good : \E k \in 1..Len(ret[p].value) :
                   /\ ret[p].value[k].ConversationID =
                        resp[i].Payload.conversation_id.v
                   /\ ret[p].value[k].Score = resp[i].Score
              /\ Len(ret[p].value) = Cardinality(good)

C10_Witness ==
  \E p \in Procs :
    /\ kind[p] = "search" /\ pc[p] = "done" /\ ret[p].err = NoError
    /\ Len(loc[p].searchResp) = 2
    /\ ~HasStringID(loc[p].searchResp[1].Payload)
    /\ Len(ret[p].value) = 1

\* the latest save of id went through in both stores and no save of id is
\* between its two upserts
Settled(id) ==
  /\ lastWrite[id] # NilPtr
  /\ \E q \in PointsWithID(points, id) :
       q.vector = EmbeddingOf(lastWrite[id][1].Question)
  /\ \A p \in Procs :
       ~(kind[p] = "save" /\ loc[p].conversationID = id /\ pc[p] = "save_vector")

\* C11: when a search merges its hits with the rows, every hit of an id whose
\* latest save went through in both stores yields a result for that id with
\* the score of the hit and with the text that this save stored.
C11_SaveThenSearch ==
  [][\A p \in Procs :
       (/\ kind[p] = "search" /\ pc[p] = "search_hydrate" /\ pc'[p] = "done"
        /\ ret'[p].err = NoError) =>
         \A i \in 1..Len(loc[p].searchResults) :
           LET hit == loc[p].searchResults[i]
           IN Settled(hit.ConversationID) =>
                \E k \in 1..Len(ret'[p].value) :
                  /\ ret'[p].value[k].ConversationID = hit.ConversationID
                  /\ ret'[p].value[k].Score = hit.Score
                  /\ Len(ret'[p].value[k].Messages) >= 1
                  /\ ret'[p].value[k].Messages[1].Content =
                       lastWrite[hit.ConversationID][1].Question]_vars

\* C12: a search one of whose calls (Embed, SearchVectors,
\* GetConversationsByIDs) failed has returned an error and no list, and the
\* failed call is the last call it made.
C12_SearchHardFailure ==
  \A p \in Procs :
    (kind[p] = "search" /\ loc[p].failed # <<>>) =>
      /\ pc[p] = "done"
      /\ ret[p].err # NoError
      /\ ret[p].null
      /\ ret[p].value = <<>>
      /\ Len(loc[p].failed) = 1
      /\ loc[p].calls[Len(loc[p].calls)] = loc[p].failed[1]

C12_Witness ==
  \E p \in Procs :
    /\ kind[p] = "search" /\ pc[p] = "done"
    /\ loc[p].failed = <<"GetConversationsByIDs">>
    /\ Len(loc[p].searchResults) = 2

Responded(p, handler) ==
  pc[p] = "responded" /\ http[p].handler = handler

\* C13: a search request whose query holds nothing but white space has been
\* answered with status 400 and has called no collaborator.
C13_BlankQueryRejected ==
  \A p \in Procs :
    (/\ http[p].handler = "search"
     /\ \A i \in 1..Len(http[p].request.Query) :
          http[p].request.Query[i] = " ") =>
      /\ pc[p] = "responded"
      /\ http[p].response[1].Status = StatusBadRequest
      /\ loc[p].calls = <<>>

\* C14: a save request with an empty id and valid messages has been answered
\* with status 201 and a non-empty id under which a row is stored.
C14_EmptyIdAccepted ==
  \A p \in Procs :
    (/\ Responded(p, "save")
     /\ http[p].request.Bound
     /\ http[p].request.Body.ConversationID = EmptyString
     /\ http[p].request.Body.Messages \in MessageLists) =>
      /\ http[p].response[1].Status = StatusCreated
      /\ http[p].response[1].Data[1].ConversationID # EmptyString
      /\ RowsWithID(conversations,
                    http[p].response[1].Data[1].ConversationID) # {}

\* ids of at most two bytes
HashInputs == UNION {[1..n -> 0..5] : n \in 0..2}

\* C15: the point id of an id is never 0: it is the FNV-1a hash of the id, or
\* 1 when that hash is 0; no point of the index has id 0, and a later save
\* of an id writes the point id an earlier save of that id wrote.
C15_HashDeterministicNonZero ==
  /\ [](/\ \A id \in HashInputs :
             /\ hashConversationID(id) \in 1..(HashMod - 1)
             /\ hashConversationID(id) =
                  IF Sum64a(FNVOffset, id) = 0 THEN 1
                  ELSE Sum64a(FNVOffset, id)
        /\ \A q \in points : q.id # 0)
  /\ [][\A id \in AllIds :
          \A q \in PointsWithID(points, id) :
            \A r \in PointsWithID(points', id) : q.id = r.id]_vars

C15_Witness ==
  \E q \in points :
    /\ q.id = 1
    /\ Sum64a(FNVOffset, PayloadConversationID(q.payload)) = 0
    /\ Cardinality(points) = 2

\* C16: the index holds one point per point id; a successful vector upsert
\* of b over the point of another id a with the same hash removes the point
\* of a, leaves one point of b and both rows, and the save returns no error;
\* a search only gets hits of ids that have a point at that moment, and
\* returns results only for its hits.
C16_HashCollision ==
  /\ [](\A q, r \in points : q.id = r.id => q = r)
  /\ [][\A p \in Procs : \A a \in AllIds :
          LET b == loc[p].conversationID
          IN (/\ kind[p] = "save" /\ pc[p] = "save_vector" /\ pc'[p] = "done"
              /\ ~("SaveVector" \in SeqRange(loc'[p].failed))
              /\ a # b
              /\ hashConversationID(a) = hashConversationID(b)
              /\ PointsWithID(points, a) # {}) =>
               /\ PointsWithID(points', a) = {}
               /\ Cardinality(PointsWithID(points', b)) = 1
               /\ Cardinality(points') = Cardinality(points)
               /\ conversations' = conversations
               /\ RowsWithID(conversations', a) # {}
               /\ RowsWithID(conversations', b) # {}
               /\ ret'[p].err = NoError]_vars
  /\ [][\A p \in Procs :
          (kind[p] = "search" /\ pc[p] = "search_topk" /\ pc'[p] # pc[p]) =>
            \A i \in 1..Len(loc'[p].searchResults) :
              PointsWithID(points, loc'[p].searchResults[i].ConversationID)
                # {}]_vars
  /\ [](\A p \in Procs :
          (kind[p] = "search" /\ pc[p] = "done" /\ ret[p].err = NoError) =>
            \A k \in 1..Len(ret[p].value) :
              \E i \in 1..Len(loc[p].searchResults) :
                loc[p].searchResults[i].ConversationID =
                  ret[p].value[k].ConversationID)

C16_Witness ==
  /\ RowsWithID(conversations, IdA) # {}
  /\ RowsWithID(conversations, IdB) # {}
  /\ PointsWithID(points, IdA) = {}
  /\ PointsWithID(points, IdB) # {}
  /\ \E p \in Procs :
       /\ kind[p] = "search" /\ pc[p] = "done"
       /\ Len(ret[p].value) = 1
       /\ ret[p].value[1].ConversationID = IdB

\* C17: a read whose store call failed has returned an error; a read whose
\* store call succeeded has returned no error, and nil exactly when the
\* store holds no row of the id, else the record of that id.
C17_GetAbsent ==
  \A p \in Procs :
    (kind[p] = "get" /\ pc[p] = "done") =>
      /\ Failed(p, "GetConversation") => ret[p].err # NoError /\ ret[p].null
      /\ ~Failed(p, "GetConversation") =>
           /\ ret[p].err = NoError
           /\ ret[p].null <=> RowsWithID(conversations, req[p].ID) = {}
           /\ ret[p].null => ret[p].value = NilPtr
           /\ ~ret[p].null => ret[p].value[1].ID = req[p].ID

C17_Witness ==
  \E p \in Procs :
    /\ kind[p] = "get" /\ pc[p] = "done"
    /\ ret[p].err = NoError /\ ret[p].null
    /\ conversations # {}

\* C18: a successful save has returned, and the save endpoint has answered
\* with, a vectors-created count of 1 and a stored-message count equal to the
\* number of messages of the request, also when its vector upsert failed.
C18_OptimisticCounts ==
  \A p \in Procs :
    /\ (kind[p] = "save" /\ pc[p] \in {"done", "responded"}
          /\ ret[p].err = NoError) =>
         /\ ret[p].value[1].VectorsCreated = 1
         /\ ret[p].value[1].MessagesStored = Len(req[p].Messages)
    /\ (Responded(p, "save")
          /\ http[p].response[1].Status = StatusCreated) =>
         /\ ret[p].err = NoError
         /\ http[p].response[1].Data[1].VectorsCreated = 1
         /\ http[p].response[1].Data[1].MessagesStored =
              Len(http[p].request.Body.Messages)

C18_Witness ==
  \E p \in Procs :
    /\ Responded(p, "save")
    /\ http[p].response[1].Status = StatusCreated
    /\ Failed(p, "SaveVector")
    /\ Len(http[p].request.Body.Messages) = 2

C20_HealthOfThree ==
  \A p \in Procs :
    Responded(p, "health") =>
      LET allHealthy == /\ http[p].request.Ping
                        /\ http[p].request.Collection = "exists"
                        /\ http[p].request.OpenAI
          response == http[p].response[1]
      IN IF allHealthy
           THEN /\ response.Status = StatusOK
                /\ response.Success
                /\ response.Data[1].Status = "healthy"
           ELSE /\ response.Status = StatusServiceUnavailable
                /\ ~response.Success
                /\ response.Data[1].Status = "unhealthy"

\* the reply holds one entry for every index of the texts and no other
FullReply(texts, data) ==
  /\ Len(data) = Len(texts)
  /\ {data[j].Index : j \in 1..Len(data)} = 0..(Len(texts) - 1)

\* C21: when the upstream returns one entry per text, in whatever order,
\* EmbedBatch returns without error as many vectors as texts, none nil, the
\* i-th being the embedding of the entry with index i - 1.
C21_EmbedBatchOrder ==
  \A p \in Procs :
    (/\ kind[p] = "embed_batch" /\ pc[p] = "done"
     /\ req[p].OK
     /\ Len(req[p].Texts) >= 1
     /\ FullReply(req[p].Texts, req[p].Data)) =>
      /\ ret[p].err = NoError
      /\ Len(ret[p].value) = Len(req[p].Texts)
      /\ \A i \in 1..Len(req[p].Texts) :
           /\ ret[p].value[i] # NilPtr
           /\ \E j \in 1..Len(req[p].Data) :
                /\ req[p].Data[j].Index = i - 1
                /\ ret[p].value[i] = req[p].Data[j].Embedding
           /\ ret[p].value[i] = EmbeddingOf(req[p].Texts[i])

C21_Witness ==
  \E p \in Procs :
    /\ kind[p] = "embed_batch" /\ pc[p] = "done"
    /\ req[p].OK
    /\ req[p].Texts = << <<"x">>, <<"y">>, <<"x">> >>
    /\ FullReply(req[p].Texts, req[p].Data)
    /\ req[p].Data[1].Index = 2
    /\ req[p].Data[2].Index = 0
    /\ ret[p].err = NoError

\* C22: a search request without top_k, or with a top_k that is empty, not a
\* number, not positive or above 100, runs with the limit 10.
C22_TopKDefaultTen ==
  \A p \in Procs :
    (/\ http[p].handler = "search" /\ kind[p] = "search"
     /\ http[p].request.TopK \in
          {NilPtr, Ptr(EmptyString), Ptr(<<"a">>), Ptr(<<"0">>),
           Ptr(<<"1", "0", "1">>), Ptr(<<"-", "1">>)}) =>
      /\ req[p].Limit = 10
      /\ loc[p].limit = 10

\* C23: every step of a search, from its arrival to its return, successful
\* or failed, leaves the rows and the points as they are.
C23_SearchReadOnly ==
  [][\A p \in Procs :
       (pc'[p] # pc[p] /\ (kind[p] = "search" \/ kind'[p] = "search"))
         => /\ conversations' = conversations
            /\ points' = points]_vars

C23_Witness ==
  /\ conversations # {} /\ points # {}
  /\ \E p \in Procs :
       /\ kind[p] = "search" /\ pc[p] = "done"
       /\ ret[p].err = NoError /\ Len(ret[p].value) = 1

\* C24: the merge of a search returns, without error unless the fetch
\* failed, exactly one result for every distinct hit id that has a row and no
\* other result, at most as many results as the effective count, each with a
\* score the index returned for its id (the last one for a repeated id).
C24_ResultSet ==
  [][\A p \in Procs :
       (kind[p] = "search" /\ pc[p] = "search_hydrate" /\ pc'[p] = "done") =>
         LET hits == loc[p].searchResults
             ids == {hits[i].ConversationID : i \in 1..Len(hits)}
             present == {id \in ids : RowsWithID(conversations, id) # {}}
             value == ret'[p].value
         IN IF "GetConversationsByIDs" \in SeqRange(loc'[p].failed)
              THEN ret'[p].err # NoError
              ELSE /\ ret'[p].err = NoError
                   /\ {value[k].ConversationID : k \in 1..Len(value)} = present
                   /\ Len(value) = Cardinality(present)
                   /\ Len(value) <= loc[p].limit
                   /\ \A k \in 1..Len(value) :
                        \E i \in 1..Len(hits) :
                          /\ hits[i].ConversationID = value[k].ConversationID
                          /\ hits[i].Score = value[k].Score
                          /\ \A j \in (i + 1)..Len(hits) :
                               hits[j].ConversationID # hits[i].ConversationID
                  ]_vars

C24_Witness ==
  \E p \in Procs :
    /\ kind[p] = "search" /\ pc[p] = "done" /\ ret[p].err = NoError
    /\ Len(loc[p].searchResults) = 2
    /\ loc[p].searchResults[1].ConversationID = IdG
    /\ loc[p].searchResults[2].ConversationID = IdA
    /\ Len(ret[p].value) = 1
    /\ Cardinality(conversations) = 2

\* the contents of the messages, each followed by one space (the contents of
\* MessageLists are of one character each)
IsConcatenation(content, messages) ==
  /\ Len(content) = 2 * Len(messages)
  /\ \A i \in 1..Len(messages) :
       /\ content[2 * i - 1] = messages[i].Content[1]
       /\ content[2 * i] = " "

C26_PointIdDerived ==
  /\ [](\A q \in points :
          q.id = hashConversationID(PayloadConversationID(q.payload)))
  /\ [][\A p \in Procs :
          /\ (kind[p] = "save" /\ pc[p] = "save_vector" /\ pc'[p] = "done"
              /\ "SaveVector" \notin SeqRange(loc'[p].failed)) =>
               LET id == loc[p].conversationID
                   h == hashConversationID(id)
               IN /\ \E q \in points' :
                       /\ q.id = h
                       /\ PayloadConversationID(q.payload) = id
                       /\ \A o \in points' : o.id = h => o = q
                  /\ {o \in points' : o.id # h} = {o \in points : o.id # h}
          /\ (kind'[p] = "delete_vector" /\ pc[p] = "idle" /\ pc'[p] = "done"
              /\ ret'[p].err = NoError) =>
               LET id == req'[p].ConversationID
                   h == hashConversationID(id)
               IN /\ PointsWithID(points', id) = {}
                  /\ points' = {o \in points : o.id # h}
       ]_vars

C26_Witness ==
  \E p, d \in Procs :
    /\ kind[p] = "save" /\ pc[p] = "done" /\ Succeeded(p, "SaveVector")
    /\ loc[p].conversationID = IdA
    /\ kind[d] = "delete_vector" /\ pc[d] = "done" /\ ret[d].err = NoError
    /\ req[d].ConversationID = IdA
    /\ PointsWithID(points, IdA) = {}
    /\ PointsWithID(points, IdZ) # {}

\* C27: when a save whose three calls all succeeded finishes, the vector of
\* the point of its id is the embedding of the question the row of that id
\* holds.
C27_ContentConsistency ==
  [][\A p \in Procs :
       (kind[p] = "save" /\ pc[p] = "save_vector" /\ pc'[p] = "done"
        /\ loc'[p].failed = <<>>) =>
         \A conv \in RowsWithID(conversations', loc[p].conversationID) :
           \A q \in PointsWithID(points', loc[p].conversationID) :
             q.vector = EmbeddingOf(conv.Question)
    ]_vars

\* C28: when two saves of one id have both finished with all their calls
\* succeeded, the point of the id (vector and created_at) and the metadata of
\* the row of the id are those of one of the two saves.
C28_ConcurrentSavesAgree ==
  \A p, q \in Procs :
    (/\ p # q
     /\ kind[p] = "save" /\ pc[p] = "done" /\ loc[p].failed = <<>>
     /\ kind[q] = "save" /\ pc[q] = "done" /\ loc[q].failed = <<>>
     /\ loc[p].conversationID = loc[q].conversationID) =>
      \E w \in {p, q} :
        /\ \A conv \in RowsWithID(conversations, loc[w].conversationID) :
             conv.Metadata = loc[w].metadataStr
        /\ \A pt \in PointsWithID(points, loc[w].conversationID) :
             /\ pt.vector = loc[w].embedding
             /\ pt.payload.created_at = JNumber(loc[w].now)

\* C29: an update or a delete of a personal-info entry that was answered
\* while the entry was missing has been answered with 404 and
\* PERSONAL_INFO_NOT_FOUND, and one answered with 500 had a call of the store
\* fail.
C29_MissingEntryIs404 ==
  \A p \in Procs :
    (pc[p] = "responded" /\ http[p].handler \in {"info_update", "info_delete"}
     /\ http[p].request.InfoID # "") =>
      LET response == http[p].response[1]
      IN /\ (http[p].missing /\ ~http[p].failed) =>
              /\ response.Status = StatusNotFound
              /\ response.Code = "PERSONAL_INFO_NOT_FOUND"
         /\ response.Status = StatusInternalServerError => http[p].failed

\* C30: when two updates of one entry, one that sets the content only and one
\* that sets the category only, have both been answered with 200, the entry
\* holds the content of the one and the category of the other.
C30_DisjointUpdatesBothApply ==
  \A p, q \in Procs :
    (/\ p # q
     /\ Responded(p, "info_update") /\ Responded(q, "info_update")
     /\ http[p].response[1].Status = StatusOK
     /\ http[q].response[1].Status = StatusOK
     /\ http[p].request.InfoID = http[q].request.InfoID
     /\ http[p].request.Body = [Content |-> "c2", Category |-> "", Importance |-> ""]
     /\ http[q].request.Body = [Content |-> "", Category |-> "k2", Importance |-> ""]) =>
      \A r \in InfoWithID(personal_info, http[p].request.InfoID) :
        r.Content = "c2" /\ r.Category = "k2"

====
